---- MODULE Spec2Model ----
(***************************************************************************)
(* Machine lifecycle state machine (src/src/machines/machine.rs) and the   *)
(* fleet manager that drives it.  The manager (machines::Manager, the      *)
(* Rescheduler) is not part of the sources at hand; its pool, RAM budget   *)
(* and reschedule pass follow the written specification.                   *)
(*                                                                         *)
(* The program runs on a single thread (main.rs builds a current-thread    *)
(* runtime), so every handler runs to completion before the next starts.   *)
(* Each Machine guards its Inner with a std::sync::Mutex, which is not     *)
(* reentrant: locking it again on the thread that holds it never returns   *)
(* (the standard library leaves open whether it panics or deadlocks).      *)
(***************************************************************************)
EXTENDS Integers, FiniteSets, Sequences, TLC

VARIABLES
    pool,          \* the manager's machines: creation number -> Machine
    nextId,        \* creation number of the next machine
    mode,          \* "idle", or "pass" while a reschedule pass iterates
    cursor,        \* creation number of the machine the pass handled last
    ramAvailable,  \* the RAM counter threaded through a pass
    thread,        \* "running", "deadlocked" or "panicked"
    rescheduled,   \* the Rescheduler capability has been invoked
    now,           \* the monotonic clock read by Instant::now()
    passStart,     \* history: the statuses in the pool when the pass (or the
                   \* reconciliation) began
    scen,          \* history: progress of each machine in the online/busy scenario
    last           \* history: the operation performed last

vars == <<pool, nextId, mode, cursor, ramAvailable, thread, rescheduled, now,
          passStart, scen, last>>

\* ------------------------------------------------------------------ bounds
MaxMachines == 3
MaxNow == 1
MaxFleet == 4

\* --------------------------------------------------------------- constants
TotalRamBytes == 10

NoInstant == -1

\* u32 values are kept as <<high, low>> 16-bit halves; U16Max is either half
\* of u32::MAX.
U16Max == 65535

Statuses == {"Requested", "Registering", "Registered", "Starting",
             "Waiting", "Running", "Stopping", "Stopped"}

Online == {"SomeTrue", "SomeFalse", "None"}

\* The configuration snapshot: machine class -> RAM, in units.
ConfigFile == [small |-> 4, big |-> 6, huge |-> 12]

\* The triplets a request may name; "ghost" has no machine configuration.
Triplets == {"small", "big", "huge", "ghost"}

\* RAM values handed to Machine::reschedule when it is called on its own.
RamInputs == {0, 4, 10}

\* ------------------------------------------------------------------ Status
is_available(status) ==
    IF status \in {"Requested", "Registering", "Registered", "Starting", "Waiting"}
    THEN TRUE
    ELSE FALSE

\* Mutant: the machine about to stop taken for the stopped one.
is_stopped_stopping(status) == status = "Stopping"

is_stopped(status) == status = "Stopped"

\* ----------------------------------------------------------------- Machine
\* Mutant: an unknown triplet falls back to the "small" class.
new_fallback(triplet) ==
    {[triplet |-> IF triplet \notin DOMAIN ConfigFile THEN "small" ELSE triplet,
      status |-> "Requested", started |-> NoInstant, lock |-> "free"]}

\* Machine::new: None (here: the empty set) for an unknown triplet.
new(triplet) ==
    IF triplet \notin DOMAIN ConfigFile
    THEN {}
    ELSE {[triplet |-> triplet, status |-> "Requested", started |-> NoInstant,
           lock |-> "free"]}

\* Mutant: a reentrant lock, which the holding thread takes again.
inner_reentrant(m) ==
    IF m.lock \in {"free", "held"} THEN {"running"} ELSE {"panicked"}

\* self.inner.lock().unwrap() on the program's only thread: what the thread
\* is after the call.
inner(m) ==
    IF m.lock = "free" THEN {"running"}
    ELSE IF m.lock = "held" THEN {"deadlocked", "panicked"}
    ELSE {"panicked"}

machine_config(m) == ConfigFile[m.triplet]

ram_required(m) == machine_config(m)

U32(n) == <<n \div (U16Max + 1), n % (U16Max + 1)>>

U32Max == <<U16Max, U16Max>>

U32Less(a, b) == a[1] < b[1] \/ (a[1] = b[1] /\ a[2] < b[2])

\* Mutant: a machine waiting for a job is cheaper to kill than one that boots.
cost_to_kill_swapped(m) ==
    CASE m.status = "Requested" -> U32(0)
      [] m.status = "Registering" -> U32(1)
      [] m.status = "Registered" -> U32(2)
      [] m.status = "Starting" -> U32(4)
      [] m.status = "Waiting" -> U32(3)
      [] m.status \in {"Running", "Stopping", "Stopped"} -> U32Max

cost_to_kill(m) ==
    CASE m.status = "Requested" -> U32(0)
      [] m.status = "Registering" -> U32(1)
      [] m.status = "Registered" -> U32(2)
      [] m.status = "Starting" -> U32(3)
      [] m.status = "Waiting" -> U32(4)
      [] m.status \in {"Running", "Stopping", "Stopped"} -> U32Max

\* Mutant: a Registered machine counted as consuming its RAM.
ram_consumed_registered(m) ==
    IF m.status \in {"Requested", "Registering", "Stopped"}
    THEN 0
    ELSE ram_required(m)

ram_consumed(m) ==
    IF m.status \in {"Requested", "Registering", "Registered", "Stopped"}
    THEN 0
    ELSE ram_required(m)

starting_duration(m, t) ==
    IF m.status = "Starting" /\ m.started # NoInstant
    THEN t - m.started
    ELSE NoInstant

\* Mutant: the registration never concludes.
register_unfinished(m) == [m EXCEPT !.status = "Registering"]

\* register: Requested -> Registering -> Registered, under the caller's guard.
register(m) ==
    LET registering == [m EXCEPT !.status = "Registering"]
    IN  [registering EXCEPT !.status = "Registered"]

\* Mutant: kill only starts the teardown.
kill_stopping(m) ==
    { IF t = "running"
      THEN [m |-> [m EXCEPT !.status = "Stopping"], thread |-> t]
      ELSE [m |-> m, thread |-> t]
      : t \in inner(m) }

\* kill: takes the machine's lock itself, then sets Stopped.
kill(m) ==
    { IF t = "running"
      THEN [m |-> [m EXCEPT !.status = "Stopped"], thread |-> t]
      ELSE [m |-> m, thread |-> t]
      : t \in inner(m) }

\* spawn: under the caller's guard sets Starting and the start time, then
\* calls self.kill() and, once that has returned, the rescheduler.
spawn(m, t) ==
    LET starting == [m EXCEPT !.status = "Starting", !.started = t]
    IN  { [m |-> k.m, thread |-> k.thread, rescheduled |-> (k.thread = "running")]
          : k \in kill(starting) }

\* What dropping reschedule's guard leaves of the lock: released on return,
\* poisoned when the thread unwinds, held for ever when the thread hangs.
guard_dropped(m, t) ==
    [m EXCEPT !.lock = IF t = "running" THEN "free"
                       ELSE IF t = "panicked" THEN "poisoned"
                       ELSE "held"]

\* Mutant: the budget is checked before the status is looked at, so that a
\* registration waits for RAM too.
reschedule_budget_first(m, ram_available, t) ==
    IF ram_required(m) > ram_available \/ m.status \notin {"Requested", "Registered"}
    THEN {[m |-> m, ram_available |-> ram_available, thread |-> "running",
           rescheduled |-> FALSE]}
    ELSE IF m.status = "Requested"
    THEN {[m |-> register(m), ram_available |-> ram_available,
           thread |-> "running", rescheduled |-> FALSE]}
    ELSE { [m |-> guard_dropped(s.m, s.thread), ram_available |-> ram_available,
            thread |-> s.thread, rescheduled |-> s.rescheduled]
           : s \in spawn([m EXCEPT !.lock = "held"], t) }

\* Mutant: a Registered machine is spawned whatever RAM is left.
reschedule_unchecked(m, ram_available, t) ==
    IF m.status = "Requested"
    THEN {[m |-> register(m), ram_available |-> ram_available,
           thread |-> "running", rescheduled |-> FALSE]}
    ELSE IF m.status = "Registered"
    THEN { [m |-> guard_dropped(s.m, s.thread), ram_available |-> ram_available,
            thread |-> s.thread, rescheduled |-> s.rescheduled]
           : s \in spawn([m EXCEPT !.lock = "held"], t) }
    ELSE {[m |-> m, ram_available |-> ram_available, thread |-> "running",
           rescheduled |-> FALSE]}

\* Machine::reschedule(&mut ram_available): the outcomes of one call.
reschedule(m, ram_available, t) ==
    UNION {
      IF g # "running"
      THEN {[m |-> m, ram_available |-> ram_available, thread |-> g,
             rescheduled |-> FALSE]}
      ELSE LET locked == [m EXCEPT !.lock = "held"]
           IN  IF m.status = "Requested"
               THEN {[m |-> guard_dropped(register(locked), "running"),
                      ram_available |-> ram_available, thread |-> "running",
                      rescheduled |-> FALSE]}
               ELSE IF m.status = "Registered"
               THEN IF ram_required(m) > ram_available
                    THEN {[m |-> m, ram_available |-> ram_available,
                           thread |-> "running", rescheduled |-> FALSE]}
                    ELSE { [m |-> guard_dropped(s.m, s.thread),
                            ram_available |->
                                IF s.thread = "running"
                                THEN ram_available - ram_required(m)
                                ELSE ram_available,
                            thread |-> s.thread,
                            rescheduled |-> s.rescheduled]
                           : s \in spawn(locked, t) }
               ELSE {[m |-> m, ram_available |-> ram_available,
                      thread |-> "running", rescheduled |-> FALSE]}
      : g \in inner(m) }

\* The match of status_feedback: the first arm that fits decides.
feedback_table(status, online, busy) ==
    IF status = "Requested" THEN "Requested"
    ELSE IF status = "Registering" THEN "Registering"
    ELSE IF status = "Registered" THEN "Registered"
    ELSE IF status = "Starting" /\ online \in {"SomeFalse", "None"} THEN "Starting"
    ELSE IF status = "Waiting" /\ online \in {"SomeTrue", "None"} /\ ~busy THEN "Waiting"
    ELSE IF status = "Running" /\ online \in {"SomeTrue", "None"} /\ busy THEN "Running"
    ELSE IF status = "Stopping" THEN "Stopping"
    ELSE IF status = "Stopped" THEN "Stopped"
    ELSE IF status = "Starting" /\ online = "SomeTrue" /\ ~busy THEN "Waiting"
    ELSE IF status \in {"Starting", "Waiting"} /\ busy THEN "Running"
    ELSE IF status = "Waiting" /\ online = "SomeFalse" THEN "Stopping"
    ELSE IF status = "Running" /\ online = "SomeFalse" THEN "Stopping"
    ELSE IF status = "Running" /\ ~busy THEN "Stopping"
    ELSE "NoArm"

\* The tail of status_feedback: under the lock, the new status is committed
\* if it differs from the current one.
commit(m, new_status) ==
    { IF t = "running"
      THEN [m |-> IF m.status # new_status
                  THEN [m EXCEPT !.status = new_status]
                  ELSE m,
            thread |-> t]
      ELSE [m |-> m, thread |-> t]
      : t \in inner(m) }

\* Mutant: the "job taken up" arm placed before the "stay" arms.
status_feedback_busy_first(m, online, busy) ==
    commit(m, IF m.status \in {"Starting", "Waiting"} /\ busy
              THEN "Running"
              ELSE feedback_table(m.status, online, busy))

\* Mutant: the "runner vanished" arm placed before the "job taken up" arm.
status_feedback_offline_first(m, online, busy) ==
    commit(m, IF m.status = "Waiting" /\ online = "SomeFalse"
              THEN "Stopping"
              ELSE feedback_table(m.status, online, busy))

\* Mutant: a machine whose job is complete waits for the next job.
status_feedback_idle_again(m, online, busy) ==
    commit(m, IF m.status = "Running" /\ online # "SomeFalse" /\ ~busy
              THEN "Waiting"
              ELSE feedback_table(m.status, online, busy))

\* Mutant: feedback of an offline runner concludes the teardown.
status_feedback_finish_stop(m, online, busy) ==
    commit(m, IF m.status = "Stopping" /\ online = "SomeFalse"
              THEN "Stopped"
              ELSE feedback_table(m.status, online, busy))

\* Mutant: a runner seen online is taken to run a job already.
status_feedback_skip_waiting(m, online, busy) ==
    commit(m, IF m.status = "Starting" /\ online = "SomeTrue"
              THEN "Running"
              ELSE feedback_table(m.status, online, busy))

\* Mutant: a machine about to stop takes up another job.
status_feedback_restart(m, online, busy) ==
    commit(m, IF m.status = "Stopping" /\ online = "SomeTrue" /\ busy
              THEN "Running"
              ELSE feedback_table(m.status, online, busy))

\* status_feedback: locks, computes the new status, commits it if it differs.
status_feedback(m, online, busy) ==
    commit(m, feedback_table(m.status, online, busy))

\* ------------------------------------------------------------ the manager
Put(f, k, v) == [i \in DOMAIN f \cup {k} |-> IF i = k THEN v ELSE f[i]]

RECURSIVE SumRamConsumed(_, _)
SumRamConsumed(p, ids) ==
    IF ids = {} THEN 0
    ELSE LET i == CHOOSE j \in ids : TRUE
         IN  ram_consumed(p[i]) + SumRamConsumed(p, ids \ {i})

RamConsumedByPool == SumRamConsumed(pool, DOMAIN pool)

\* The machines the running pass has not handled yet, and the next of them.
Pending == {i \in DOMAIN pool : i > cursor}

NextInPass == CHOOSE i \in Pending : \A j \in Pending : i <= j

NoOp == [op |-> "none", id |-> 0, before |-> "none", online |-> "None",
         busy |-> FALSE, ra |-> 0, again |-> FALSE, triplet |-> "none",
         count |-> 0]

\* The online/busy scenario (online, idle), (online, busy), (online, idle) as
\* an observer: how far a machine that was Starting has got through it.
ScenStep(n, online, busy) ==
    IF n = 0 /\ online = "SomeTrue" /\ ~busy THEN 1
    ELSE IF n = 1 /\ online = "SomeTrue" /\ busy THEN 2
    ELSE IF n = 2 /\ online = "SomeTrue" /\ ~busy THEN 3
    ELSE -1

Idle == thread = "running" /\ mode = "idle"

\* requestMachine(identity): Machine::new, and the pool grows by its result.
RequestMachine(triplet) ==
    /\ Idle
    /\ nextId <= MaxMachines
    /\ LET created == new(triplet)
       IN  IF created = {}
           THEN /\ UNCHANGED <<pool, nextId, scen>>
                /\ last' = [NoOp EXCEPT !.op = "request", !.triplet = triplet]
           ELSE /\ pool' = Put(pool, nextId, CHOOSE m \in created : TRUE)
                /\ nextId' = nextId + 1
                /\ scen' = Put(scen, nextId, -1)
                /\ last' = [NoOp EXCEPT !.op = "request", !.id = nextId,
                                        !.triplet = triplet]
    /\ UNCHANGED <<mode, cursor, ramAvailable, thread, rescheduled, now, passStart>>

\* reschedule(), entry: ramAvailable = totalRamBytes - sum(ramConsumed()).
PassBegin ==
    /\ Idle
    /\ mode' = "pass"
    /\ cursor' = 0
    /\ ramAvailable' = TotalRamBytes - RamConsumedByPool
    /\ rescheduled' = FALSE
    /\ passStart' = [i \in DOMAIN pool |-> pool[i].status]
    /\ last' = [NoOp EXCEPT !.op = "passBegin"]
    /\ UNCHANGED <<pool, nextId, thread, now, scen>>

\* reschedule(), loop body: the next machine's reschedule(&mut ramAvailable).
PassStep ==
    /\ thread = "running"
    /\ mode = "pass"
    /\ Pending # {}
    /\ LET i == NextInPass
       IN  \E o \in reschedule(pool[i], ramAvailable, now) :
              /\ pool' = [pool EXCEPT ![i] = o.m]
              /\ ramAvailable' = o.ram_available
              /\ thread' = o.thread
              /\ rescheduled' = (rescheduled \/ o.rescheduled)
              /\ cursor' = i
              /\ scen' = [scen EXCEPT ![i] = IF o.m.status = "Starting"
                                                 /\ pool[i].status # "Starting"
                                              THEN 0 ELSE -1]
              /\ last' = [NoOp EXCEPT !.op = "reschedule", !.id = i,
                                      !.before = pool[i].status,
                                      !.ra = ramAvailable]
    /\ UNCHANGED <<nextId, mode, now, passStart>>

\* reschedule(), after the loop: every stopped machine leaves the pool.
PassEnd ==
    /\ thread = "running"
    /\ mode = "pass"
    /\ Pending = {}
    /\ LET kept == {i \in DOMAIN pool : ~is_stopped(pool[i].status)}
       IN  /\ pool' = [i \in kept |-> pool[i]]
           /\ scen' = [i \in kept |-> scen[i]]
    /\ mode' = "idle"
    /\ last' = [NoOp EXCEPT !.op = "passEnd"]
    /\ UNCHANGED <<nextId, cursor, ramAvailable, thread, rescheduled, now, passStart>>

\* applyFeedback(machine, online, busy): the machine's status_feedback.
ApplyFeedback(i, online, busy) ==
    /\ Idle
    /\ i \in DOMAIN pool
    /\ \E o \in status_feedback(pool[i], online, busy) :
          /\ pool' = [pool EXCEPT ![i] = o.m]
          /\ thread' = o.thread
    /\ scen' = [scen EXCEPT ![i] = ScenStep(scen[i], online, busy)]
    /\ last' = [NoOp EXCEPT !.op = "feedback", !.id = i,
                            !.before = pool[i].status,
                            !.online = online, !.busy = busy]
    /\ UNCHANGED <<nextId, mode, cursor, ramAvailable, rescheduled, now, passStart>>

\* The manager kills a machine (demand dropped, or stuck starting).
KillMachine(i) ==
    /\ Idle
    /\ i \in DOMAIN pool
    /\ \E o \in kill(pool[i]) :
          /\ pool' = [pool EXCEPT ![i] = o.m]
          /\ thread' = o.thread
    /\ scen' = [scen EXCEPT ![i] = -1]
    /\ last' = [NoOp EXCEPT !.op = "kill", !.id = i,
                            !.before = pool[i].status,
                            !.again = (last.op = "kill" /\ last.id = i)]
    /\ UNCHANGED <<nextId, mode, cursor, ramAvailable, rescheduled, now, passStart>>

\* The machines of a triplet, those of them not yet stopped, and those of
\* them still available.
MachinesOf(p, triplet) == {i \in DOMAIN p : p[i].triplet = triplet}

LiveOf(p, triplet) == {i \in MachinesOf(p, triplet) : ~is_stopped(p[i].status)}

AvailableOf(p, triplet) ==
    {i \in MachinesOf(p, triplet) : is_available(p[i].status)}

\* Machine i is killed before machine j: lower cost first, older first among
\* equals.
KilledBefore(p, i, j) ==
    \/ U32Less(cost_to_kill(p[i]), cost_to_kill(p[j]))
    \/ cost_to_kill(p[i]) = cost_to_kill(p[j]) /\ i < j

\* The k machines among the candidates that are killed first.
Victims(p, candidates, k) ==
    {i \in candidates :
        Cardinality({j \in candidates : KilledBefore(p, j, i)}) < k}

\* reconcileDemand(identity, desiredCount): new machines cover a shortfall;
\* on a surplus the cheapest available machines are killed.
ReconcileDemand(triplet, desired) ==
    /\ Idle
    /\ nextId + desired - Cardinality(LiveOf(pool, triplet)) <= MaxFleet + 1
    /\ LET live == Cardinality(LiveOf(pool, triplet))
           created == new(triplet)
       IN  IF live < desired /\ created # {}
           THEN LET fresh == nextId .. (nextId + (desired - live) - 1)
                IN  /\ pool' = [i \in DOMAIN pool \cup fresh |->
                                  IF i \in fresh
                                  THEN CHOOSE m \in created : TRUE
                                  ELSE pool[i]]
                    /\ scen' = [i \in DOMAIN pool \cup fresh |->
                                  IF i \in fresh THEN -1 ELSE scen[i]]
                    /\ nextId' = nextId + (desired - live)
           ELSE LET victims == Victims(pool, AvailableOf(pool, triplet),
                                       live - desired)
                IN  /\ pool' = [i \in DOMAIN pool |->
                                  IF i \in victims
                                  THEN (CHOOSE o \in kill(pool[i]) : TRUE).m
                                  ELSE pool[i]]
                    /\ scen' = [i \in DOMAIN pool |->
                                  IF i \in victims THEN -1 ELSE scen[i]]
                    /\ nextId' = nextId
    /\ passStart' = [i \in DOMAIN pool |-> pool[i].status]
    /\ last' = [NoOp EXCEPT !.op = "reconcile", !.triplet = triplet,
                            !.count = desired]
    /\ UNCHANGED <<mode, cursor, ramAvailable, thread, rescheduled, now>>

\* Time passes between two handlers.
Tick ==
    /\ Idle
    /\ now < MaxNow
    /\ now' = now + 1
    /\ UNCHANGED <<pool, nextId, mode, cursor, ramAvailable, thread, rescheduled,
                   passStart, scen, last>>

\* Machine::reschedule called on its own, with a RAM counter of the caller's.
CallReschedule(i, ram) ==
    /\ Idle
    /\ i \in DOMAIN pool
    /\ \E o \in reschedule(pool[i], ram, now) :
          /\ pool' = [pool EXCEPT ![i] = o.m]
          /\ ramAvailable' = o.ram_available
          /\ thread' = o.thread
          /\ rescheduled' = (rescheduled \/ o.rescheduled)
          /\ scen' = [scen EXCEPT ![i] = IF o.m.status = "Starting"
                                             /\ pool[i].status # "Starting"
                                          THEN 0 ELSE -1]
    /\ last' = [NoOp EXCEPT !.op = "reschedule", !.id = i,
                            !.before = pool[i].status, !.ra = ram]
    /\ UNCHANGED <<nextId, mode, cursor, now, passStart>>

\* ------------------------------------------------------- the whole program
Init ==
    /\ pool = [i \in {} |-> 0]
    /\ nextId = 1
    /\ mode = "idle"
    /\ cursor = 0
    /\ ramAvailable = TotalRamBytes
    /\ thread = "running"
    /\ rescheduled = FALSE
    /\ now = 0
    /\ passStart = [i \in {} |-> 0]
    /\ scen = [i \in {} |-> 0]
    /\ last = NoOp

Next ==
    \/ \E triplet \in Triplets : RequestMachine(triplet)
    \/ PassBegin
    \/ PassStep
    \/ PassEnd
    \/ \E i \in 1..MaxMachines, online \in Online, busy \in BOOLEAN :
          ApplyFeedback(i, online, busy)
    \/ \E i \in 1..MaxMachines : KillMachine(i)
    \/ Tick

Spec == Init /\ [][Next]_vars

\* ------------------------------------------- one machine, in any status
\* The start times a machine in the given status can carry.
StartedIn(status) ==
    IF status \in {"Requested", "Registering", "Registered"} THEN {NoInstant}
    ELSE IF status = "Stopped" THEN {NoInstant, 0}
    ELSE {0}

MachineInputs ==
    UNION { { [triplet |-> c, status |-> s, started |-> t, lock |-> "free"]
              : t \in StartedIn(s) }
            : <<c, s>> \in (DOMAIN ConfigFile) \X Statuses }

InitMachine ==
    /\ \E m \in MachineInputs :
          /\ pool = [i \in {1} |-> m]
          /\ scen = [i \in {1} |-> IF m.status = "Starting" THEN 0 ELSE -1]
    /\ nextId = 2
    /\ mode = "idle"
    /\ cursor = 0
    /\ ramAvailable \in RamInputs
    /\ thread = "running"
    /\ rescheduled = FALSE
    /\ now = 0
    /\ passStart = [i \in {} |-> 0]
    /\ last = NoOp

NextMachine ==
    \/ \E online \in Online, busy \in BOOLEAN : ApplyFeedback(1, online, busy)
    \/ KillMachine(1)
    \/ \E ram \in RamInputs : CallReschedule(1, ram)
    \/ Tick

SpecMachine == InitMachine /\ [][NextMachine]_vars

\* --------------------------------------------- a fleet, in any statuses
\* The desired counts and the triplets a reconciliation is asked for.
DesiredCounts == {0, 1, 2}

DemandTriplets == {"small", "ghost"}

\* The machines of a fleet that belong to another class than "small".
FleetForeign == {{}, {2}}

InitDemand ==
    /\ \E n \in 1..MaxFleet, foreign \in FleetForeign :
          /\ \E statuses \in [1..n -> Statuses] :
                pool = [i \in 1..n |->
                          [triplet |-> IF i \in foreign THEN "big" ELSE "small",
                           status |-> statuses[i],
                           started |-> IF ram_consumed([triplet |-> "small",
                                                        status |-> statuses[i]]) > 0
                                       THEN 0 ELSE NoInstant,
                           lock |-> "free"]]
          /\ scen = [i \in 1..n |-> -1]
          /\ nextId = n + 1
    /\ mode = "idle"
    /\ cursor = 0
    /\ ramAvailable = TotalRamBytes
    /\ thread = "running"
    /\ rescheduled = FALSE
    /\ now = 0
    /\ passStart = [i \in {} |-> 0]
    /\ last = NoOp

NextDemand ==
    \E triplet \in DemandTriplets, desired \in DesiredCounts :
       ReconcileDemand(triplet, desired)

SpecDemand == InitDemand /\ [][NextDemand]_vars

\* ------------------------------------------------------------- properties
\* The step just taken was Machine::reschedule spawning machine i.
SpawnedBy(i) ==
    /\ last'.op = "reschedule"
    /\ last'.id = i
    /\ last'.before = "Registered"
    /\ pool'[i].status # "Registered"

\* The step just taken was status_feedback on a machine in status s.
FeedbackOn(s) == last'.op = "feedback" /\ last'.before = s

\* C1: after every completed reschedule pass the RAM consumed by the machines
\* of the pool is at most the total RAM budget.
C1_BudgetAfterPass ==
    last.op = "passEnd" => RamConsumedByPool <= TotalRamBytes

\* C1 witness: a pass has completed in which a Registered machine met the
\* budget check and is still in the pool.
C1_Witness ==
    /\ last.op = "passEnd"
    /\ \E i \in DOMAIN pool :
          /\ i \in DOMAIN passStart
          /\ passStart[i] = "Registered"
          /\ pool[i].status = "Registered"

\* C2 (as claimed): a machine is spawned only if its RAM fits the counter at
\* its turn, and the counter then drops by exactly the machine's RAM, never
\* below zero.
C2_SpawnDeductsRam ==
    [][\A i \in DOMAIN pool :
          SpawnedBy(i) =>
             /\ ram_required(pool[i]) <= ramAvailable
             /\ ramAvailable' = ramAvailable - ram_required(pool[i])
             /\ ramAvailable' >= 0]_vars

\* The pass that has just completed started with machines 1, 2 and 3, all
\* Requested and of 4 units each.
ThreeRequestedPass ==
    /\ last.op = "passEnd"
    /\ DOMAIN passStart = {1, 2, 3}
    /\ \A i \in DOMAIN passStart : passStart[i] = "Requested"
    /\ DOMAIN pool = {1, 2, 3}
    /\ \A i \in DOMAIN pool : ram_required(pool[i]) = 4

\* C3 (as claimed): one pass over three Requested machines of 4 units under a
\* budget of 10 spawns the first two (8 units consumed) and leaves the third
\* Registered.
C3_OnePassSpawnsTwo ==
    ThreeRequestedPass =>
       /\ ram_consumed(pool[1]) = 4
       /\ ram_consumed(pool[2]) = 4
       /\ RamConsumedByPool = 8
       /\ pool[3].status = "Registered"

\* C3 (amended): one pass over three Requested machines of 4 units only
\* registers them: all three are Registered, none has a start time, no RAM is
\* consumed and the counter is still the whole budget.
C3_OnePassRegistersOnly ==
    ThreeRequestedPass =>
       /\ \A i \in DOMAIN pool :
             /\ pool[i].status = "Registered"
             /\ pool[i].started = NoInstant
       /\ RamConsumedByPool = 0
       /\ ramAvailable = TotalRamBytes

\* C3 witness: such a pass has completed.
C3_Witness == ThreeRequestedPass /\ thread = "running"

\* C4 (as claimed): when reschedule spawns a Registered machine the call
\* returns with the machine Starting, its start time set and its RAM consumed.
C4_SpawnReturnsStarting ==
    [][\A i \in DOMAIN pool :
          SpawnedBy(i) =>
             /\ thread' = "running"
             /\ pool'[i].status = "Starting"
             /\ pool'[i].started # NoInstant
             /\ ram_consumed(pool'[i]) = ram_required(pool'[i])]_vars

\* C5 (as claimed): feedback with busy moves a Starting or Waiting machine to
\* Running, whatever online is.
C5_BusyAlwaysRunning ==
    [][(last'.busy /\ (FeedbackOn("Starting") \/ FeedbackOn("Waiting")))
          => pool'[last'.id].status = "Running"]_vars

\* C5 (amended): feedback with busy moves a Waiting machine to Running
\* whatever online is, and a Starting machine to Running when online is true;
\* a Starting machine with online false or unknown stays Starting.
C5_BusyRunningOnceOnline ==
    [][/\ (last'.busy /\ FeedbackOn("Waiting"))
             => pool'[last'.id].status = "Running"
       /\ (last'.busy /\ FeedbackOn("Starting"))
             => pool'[last'.id].status =
                   IF last'.online = "SomeTrue" THEN "Running" ELSE "Starting"]_vars

\* C5 witness: busy feedback of unknown online has reached a Starting machine.
C5_Witness ==
    /\ last.op = "feedback" /\ last.before = "Starting"
    /\ last.busy /\ last.online = "None"
    /\ pool[last.id].status = "Starting"

\* C6 (as claimed): feedback with online false moves a Waiting machine to
\* Stopping, whatever busy is.
C6_OfflineAlwaysStopping ==
    [][(FeedbackOn("Waiting") /\ last'.online = "SomeFalse")
          => pool'[last'.id].status = "Stopping"]_vars

\* C6 (amended): feedback with online false moves a Waiting machine to
\* Stopping when busy is false, and to Running when busy is true.
C6_OfflineStoppingWhenIdle ==
    [][(FeedbackOn("Waiting") /\ last'.online = "SomeFalse")
          => pool'[last'.id].status =
                IF last'.busy THEN "Running" ELSE "Stopping"]_vars

\* C6 witness: feedback with online false and busy has reached a Waiting
\* machine.
C6_Witness ==
    /\ last.op = "feedback" /\ last.before = "Waiting"
    /\ last.online = "SomeFalse" /\ last.busy
    /\ pool[last.id].status = "Running"

\* C7: feedback moves a Running machine to Stopping exactly when online is
\* false or busy is false, and otherwise leaves it Running.
C7_RunningOnlyStops ==
    [][FeedbackOn("Running") =>
          /\ pool'[last'.id].status \in {"Running", "Stopping"}
          /\ (pool'[last'.id].status = "Stopping")
                <=> (last'.online = "SomeFalse" \/ ~last'.busy)]_vars

\* C7 witness: a Running machine got feedback of unknown online and not busy
\* and is Stopping.
C7_Witness ==
    /\ last.op = "feedback" /\ last.before = "Running"
    /\ last.online = "None" /\ ~last.busy
    /\ pool[last.id].status = "Stopping"

\* The feedback inputs on which the status is to stay what it is.
UnchangedInputs ==
    {<<s, o, b>> \in Statuses \X Online \X BOOLEAN :
        \/ s \in {"Requested", "Registering", "Registered", "Stopping", "Stopped"}
        \/ s = "Starting" /\ o \in {"SomeFalse", "None"}
        \/ s = "Waiting" /\ o \in {"SomeTrue", "None"} /\ ~b
        \/ s = "Running" /\ o \in {"SomeTrue", "None"} /\ b}

\* C8: feedback leaves the status unchanged exactly on the listed inputs, and
\* every input yields exactly one next status, one of the eight, without
\* aborting.
C8_UnchangedExactly ==
    [][last'.op = "feedback" =>
          /\ thread' = "running"
          /\ pool'[last'.id].status \in Statuses
          /\ Cardinality(status_feedback(pool[last'.id], last'.online,
                                         last'.busy)) = 1
          /\ (pool'[last'.id].status = last'.before)
                <=> (<<last'.before, last'.online, last'.busy>>
                        \in UnchangedInputs)]_vars

\* C8 witness: a Waiting machine got feedback of unknown online and not busy
\* and is still Waiting.
C8_Witness ==
    /\ last.op = "feedback" /\ last.before = "Waiting"
    /\ last.online = "None" /\ ~last.busy
    /\ pool[last.id].status = "Waiting"

\* C9: a Starting machine fed (online, idle), (online, busy), (online, idle)
\* is Waiting, then Running, then Stopping.
C9_OnlineBusyIdle ==
    \A i \in DOMAIN pool :
       /\ scen[i] = 0 => pool[i].status = "Starting"
       /\ scen[i] = 1 => pool[i].status = "Waiting"
       /\ scen[i] = 2 => pool[i].status = "Running"
       /\ scen[i] = 3 => pool[i].status = "Stopping"

\* C9 witness: a machine has been through the whole scenario.
C9_Witness == \E i \in DOMAIN pool : scen[i] = 3

\* C10: kill sets the machine Stopped with no RAM consumed, from any status,
\* and a second kill in a row changes nothing of the machine.
C10_KillStopsIdempotent ==
    [][last'.op = "kill" =>
          /\ thread' = "running"
          /\ pool'[last'.id].status = "Stopped"
          /\ ram_consumed(pool'[last'.id]) = 0
          /\ last'.again => pool'[last'.id] = pool[last'.id]]_vars

\* C10 witness: a machine has been killed twice in a row.
C10_Witness ==
    /\ last.op = "kill" /\ last.again /\ last.before = "Stopped"
    /\ pool[last.id].status = "Stopped"

\* The statuses in which a machine is available, and their order of
\* sacrifice.
AvailableStatuses == {"Requested", "Registering", "Registered", "Starting", "Waiting"}

KillRank(status) ==
    CASE status = "Requested" -> 0
      [] status = "Registering" -> 1
      [] status = "Registered" -> 2
      [] status = "Starting" -> 3
      [] status = "Waiting" -> 4
      [] OTHER -> 5

\* The step just taken was a reconciliation that found a surplus of k.
SurplusOf(k) ==
    /\ last'.op = "reconcile"
    /\ k = Cardinality({i \in DOMAIN pool :
                           /\ pool[i].triplet = last'.triplet
                           /\ pool[i].status # "Stopped"}) - last'.count
    /\ k > 0

\* The machines the step just taken has stopped.
KilledNow ==
    {i \in DOMAIN pool : pool[i].status # "Stopped" /\ pool'[i].status = "Stopped"}

\* The available machines of the reconciled triplet, before the step.
AvailableThen ==
    {i \in DOMAIN pool : /\ pool[i].triplet = last'.triplet
                         /\ pool[i].status \in AvailableStatuses}

\* The killed machines were available and none that was spared was cheaper.
CheapestKilled ==
    /\ KilledNow \subseteq AvailableThen
    /\ \A i \in KilledNow, j \in AvailableThen \ KilledNow :
          KillRank(pool[i].status) <= KillRank(pool[j].status)

\* The demand-drop example: Requested, Waiting, Running, Starting, two wanted.
DemandDropExample ==
    /\ last'.op = "reconcile" /\ last'.triplet = "small" /\ last'.count = 2
    /\ DOMAIN pool = 1..4
    /\ \A i \in 1..4 : pool[i].triplet = "small"
    /\ <<pool[1].status, pool[2].status, pool[3].status, pool[4].status>>
          = <<"Requested", "Waiting", "Running", "Starting">>

\* C11 (as claimed): on a surplus of k, exactly k machines are killed, the
\* cheapest of the available ones, and no machine that is not available.
C11_KillsExactlySurplus ==
    [][\A k \in 1..(MaxFleet + 2) :
          SurplusOf(k) => (Cardinality(KilledNow) = k /\ CheapestKilled)]_vars

\* C11 (amended): on a surplus of k, the k cheapest available machines are
\* killed, or all the available ones when they are fewer than k, and no
\* machine that is not available; in the example the Requested and the
\* Starting machine are killed.
C11_KillsCheapestAvailable ==
    [][/\ \A k \in 1..(MaxFleet + 2) :
             SurplusOf(k) =>
                /\ Cardinality(KilledNow) =
                      IF k <= Cardinality(AvailableThen)
                      THEN k ELSE Cardinality(AvailableThen)
                /\ CheapestKilled
       /\ DemandDropExample => KilledNow = {1, 4}]_vars

\* C11 witness: the example's reconciliation has been carried out.
C11_Witness ==
    /\ last.op = "reconcile" /\ last.triplet = "small" /\ last.count = 2
    /\ passStart = <<"Requested", "Waiting", "Running", "Starting">>
    /\ \A i \in DOMAIN pool : pool[i].triplet = "small"
    /\ [i \in DOMAIN pool |-> pool[i].status]
          = <<"Stopped", "Waiting", "Running", "Stopped">>

C13_RequestAddsOneOrNone ==
    [][(last'.op = "request" /\ last' # last) =>
          IF last'.triplet \notin DOMAIN ConfigFile
          THEN pool' = pool
          ELSE /\ last'.id \notin DOMAIN pool
               /\ DOMAIN pool' = DOMAIN pool \cup {last'.id}
               /\ pool'[last'.id].status = "Requested"
               /\ pool'[last'.id].started = NoInstant
               /\ pool'[last'.id].triplet = last'.triplet
               /\ \A i \in DOMAIN pool : pool'[i] = pool[i]]_vars

\* C13 witness: a request for an unknown triplet has been made of a manager
\* that has machines.
C13_Witness ==
    /\ last.op = "request" /\ last.triplet = "ghost" /\ last.id = 0
    /\ DOMAIN pool # {}

\* C14: after every completed pass no machine of the pool is Stopped.
C14_NoStoppedAfterPass ==
    last.op = "passEnd" => \A i \in DOMAIN pool : pool[i].status # "Stopped"

\* C14 witness: a pass has completed that began with a Stopped machine, which
\* is no longer in the pool.
C14_Witness ==
    /\ last.op = "passEnd"
    /\ \E i \in DOMAIN passStart : passStart[i] = "Stopped" /\ i \notin DOMAIN pool

\* C15 (as claimed): whenever a machine becomes Stopped, the Rescheduler has
\* been invoked.
C15_StoppedReschedules ==
    [][\A i \in DOMAIN pool \cap DOMAIN pool' :
          (pool[i].status # "Stopped" /\ pool'[i].status = "Stopped")
             => rescheduled']_vars

\* C16: Machine::reschedule on a Requested machine leaves it Registered,
\* without start time, whatever RAM is available, and leaves the RAM counter
\* as it was.
C16_RegisterUnbudgeted ==
    [][(last'.op = "reschedule" /\ last'.before = "Requested") =>
          /\ thread' = "running"
          /\ pool'[last'.id].status = "Registered"
          /\ pool'[last'.id].started = NoInstant
          /\ ramAvailable' = last'.ra]_vars

\* C16 witness: a Requested machine has been rescheduled with no RAM
\* available and is Registered.
C16_Witness ==
    /\ last.op = "reschedule" /\ last.before = "Requested" /\ last.ra = 0
    /\ pool[last.id].status = "Registered"

\* The statuses in which Machine::reschedule has nothing to do.
RescheduleIdleStatuses ==
    {"Registering", "Starting", "Waiting", "Running", "Stopping", "Stopped"}

\* C17: Machine::reschedule leaves status, start time and RAM counter as
\* they were on a machine in one of the six other statuses, and on a
\* Registered machine that needs more RAM than is available.
C17_RescheduleNoOp ==
    [][(/\ last'.op = "reschedule"
        /\ \/ last'.before \in RescheduleIdleStatuses
           \/ /\ last'.before = "Registered"
              /\ ConfigFile[pool[last'.id].triplet] > last'.ra) =>
          /\ thread' = "running"
          /\ pool'[last'.id].status = last'.before
          /\ pool'[last'.id].started = pool[last'.id].started
          /\ ramAvailable' = last'.ra]_vars

\* C17 witness: a Registered machine of 6 units has been rescheduled with 4
\* units available and is still Registered.
C17_Witness ==
    /\ last.op = "reschedule" /\ last.before = "Registered" /\ last.ra = 4
    /\ pool[last.id].triplet = "big"
    /\ pool[last.id].status = "Registered"
    /\ thread = "running"

\* The place of a status in the lifecycle.
StatusRank(status) ==
    CASE status = "Requested" -> 0
      [] status = "Registering" -> 1
      [] status = "Registered" -> 2
      [] status = "Starting" -> 3
      [] status = "Waiting" -> 4
      [] status = "Running" -> 5
      [] status = "Stopping" -> 6
      [] status = "Stopped" -> 7

\* C18: no operation moves a machine's status backwards in the lifecycle;
\* a Stopped machine stays Stopped and a Stopping one stays Stopping or
\* becomes Stopped.
C18_StatusForward ==
    [][\A i \in DOMAIN pool \cap DOMAIN pool' :
          /\ StatusRank(pool'[i].status) >= StatusRank(pool[i].status)
          /\ pool[i].status = "Stopped" => pool'[i].status = "Stopped"
          /\ pool[i].status = "Stopping"
                => pool'[i].status \in {"Stopping", "Stopped"}]_vars

\* C18 witness: a Stopping machine got feedback of a runner online and busy
\* and is still Stopping.
C18_Witness ==
    /\ last.op = "feedback" /\ last.before = "Stopping"
    /\ last.online = "SomeTrue" /\ last.busy
    /\ pool[last.id].status = "Stopping"

\* C19 (as claimed): every call of Machine::reschedule returns.
C19_RescheduleReturns ==
    last.op = "reschedule" => thread = "running"

\* C20 (as claimed): after each machine of a pass the RAM counter is the
\* budget less the RAM consumed by the pool, and no other machine has
\* changed.
C20_CounterFaithful ==
    [][(mode' = "pass" /\ last'.op = "reschedule" /\ cursor' # cursor) =>
          /\ ramAvailable' = TotalRamBytes - RamConsumedByPool'
          /\ \A j \in DOMAIN pool \ {last'.id} : pool'[j] = pool[j]]_vars

====
